---- MODULE Spec2Model ----
(***************************************************************************)
(* BaseModel of talkingface/model/audio_driven_talkingface/                *)
(* live_speech_portraits.py: the training/inference scaffold around named  *)
(* sub-networks (checkpoint save/load, train/eval mode, schedulers, loss   *)
(* and visual bookkeeping).                                                *)
(*                                                                         *)
(* Python strings are TLA+ strings (sequences of characters), so slicing   *)
(* and formatting are computed on the characters.  An OrderedDict is a     *)
(* sequence of [k, v] records with pairwise distinct keys.                 *)
(***************************************************************************)
EXTENDS Integers, Sequences, FiniteSets, TLC

VARIABLES
    isTrain,        \* self.isTrain
    gpu_ids,        \* self.gpu_ids
    lr_policy,      \* self.opt.lr_policy
    save_dir,       \* self.save_dir
    model_names,    \* self.model_names
    loss_names,     \* self.loss_names
    visual_names,   \* self.visual_names
    optimizers,     \* self.optimizers
    schedulers,     \* self.schedulers (an attribute that may not exist yet)
    metric,         \* self.metric
    attrs,          \* the loss_* and visual attributes of the model object
    nets,           \* the network attributes: state dict, mode, module tree
    files,          \* the file system: path -> pickled state dict
    grad_enabled,   \* torch's gradient-recording mode
    lastOp,         \* the method that ran last
    lastArg,        \* the epoch and continue_train it was called with
    raised,         \* the exception it ended with, "none" if it returned
    trace,          \* the calls it made, in order
    ret,            \* the mapping it returned (bookkeeping getters)
    snap,           \* the networks as they were at the last save_networks
    set_up          \* whether the last setup returned

vars == <<isTrain, gpu_ids, lr_policy, save_dir, model_names, loss_names,
          visual_names, optimizers, schedulers, metric, attrs, nets, files,
          grad_enabled, lastOp, lastArg, raised, trace, ret, snap, set_up>>

-----------------------------------------------------------------------------
(* Bounds *)

MaxVal == 1         \* tensor entries range over 0..MaxVal
MaxOpt == 2         \* at most MaxOpt optimizers
MaxSteps == 2       \* a scheduler is stepped at most MaxSteps times

Vals == 0..MaxVal

-----------------------------------------------------------------------------
(* Python string and OrderedDict primitives *)

\* s[-3:]
LastThree(s) == SubSeq(s, IF Len(s) > 3 THEN Len(s) - 2 ELSE 1, Len(s))

\* s[7:]
DropSeven(s) == SubSeq(s, 8, Len(s))

\* s.startswith(p)
StartsWith(s, p) == Len(s) >= Len(p) /\ SubSeq(s, 1, Len(p)) = p

\* '%s_%s.pkl' % (epoch, name)
PklName(epoch, name) == epoch \o "_" \o name \o ".pkl"

\* os.path.join(a, b)
PathJoin(a, b) ==
    IF StartsWith(b, "/") \/ a = "" THEN b
    ELSE IF SubSeq(a, Len(a), Len(a)) = "/" THEN a \o b
    ELSE a \o "/" \o b

\* isinstance(name, str): list entries are tagged with their Python type
IsStr(entry) == entry.type = "str"
StrEntry(s) == [type |-> "str", v |-> s]
ObjEntry == [type |-> "obj", v |-> ""]

\* the keys of an OrderedDict, in order
Keys(d) == [i \in 1..Len(d) |-> d[i].k]
KeySet(d) == {d[i].k : i \in 1..Len(d)}
HasKey(d, key) == key \in KeySet(d)
Get(d, key) == (CHOOSE i \in 1..Len(d) : d[i].k = key)

\* d[key]
Lookup(d, key) == d[Get(d, key)].v

\* d.pop(key): the entry is removed, the others keep their order
Pop(d, key) == SelectSeq(d, LAMBDA e : e.k # key)

\* d[key] = val: an existing key keeps its place, a new one goes to the end
SetItem(d, key, val) ==
    IF HasKey(d, key)
    THEN [i \in 1..Len(d) |-> IF d[i].k = key THEN [k |-> key, v |-> val] ELSE d[i]]
    ELSE Append(d, [k |-> key, v |-> val])

EmptyDict == <<>>

\* no epoch argument
NoArg == [epoch |-> "", continue_train |-> FALSE]

-----------------------------------------------------------------------------
(* The networks.  A network is an attribute of the subclass; BaseModel only *)
(* uses its state_dict(), load_state_dict(), train(), eval() and, in the    *)
(* checkpoint patch, its module tree.  The architectures below are the      *)
(* inputs the model is run on.                                              *)

NetNames == {"G", "D"}

\* module path -> class name and the buffers that are None on that module
ModuleTree(arch) ==
    CASE arch = "plain" ->
           [p \in {"", "c", "n"} |->
              CASE p = "" -> [cls |-> "Generator", none |-> {}]
                [] p = "c" -> [cls |-> "Conv2d", none |-> {}]
                [] p = "n" -> [cls |-> "InstanceNorm2d",
                               none |-> {"running_mean", "running_var"}]]
      [] arch = "track" ->
           [p \in {"", "n"} |->
              CASE p = "" -> [cls |-> "Generator", none |-> {}]
                [] p = "n" -> [cls |-> "InstanceNorm2d", none |-> {}]]
      [] arch = "wrapped" ->
           [p \in {"", "module", "module.c"} |->
              CASE p = "" -> [cls |-> "DataParallel", none |-> {}]
                [] p = "module" -> [cls |-> "Generator", none |-> {}]
                [] p = "module.c" -> [cls |-> "Conv2d", none |-> {}]]
      [] arch = "linear" ->
           [p \in {""} |-> [cls |-> "Linear", none |-> {}]]

\* the keys of net.state_dict(), in registration order
StateKeys(arch) ==
    CASE arch = "plain" -> <<"c.w">>
      [] arch = "track" -> <<"n.running_mean", "n.num_batches_tracked">>
      [] arch = "wrapped" -> <<"module.c.w">>
      [] arch = "linear" -> <<"weight">>

Archs == {"plain", "track", "wrapped"}

\* a network as the subclass constructor leaves it, in the given mode
NewNet(arch, mode) ==
    [arch |-> arch,
     training |-> mode,
     sd |-> [i \in 1..Len(StateKeys(arch)) |-> [k |-> StateKeys(arch)[i], v |-> 0]]]

\* net.load_state_dict(state_dict, strict=False): entries of the network
\* that the dict names take the dict's value, all other keys are ignored
LoadStateDict(net, state_dict) ==
    [net EXCEPT !.sd = [i \in 1..Len(net.sd) |->
        IF HasKey(state_dict, net.sd[i].k)
        THEN [k |-> net.sd[i].k, v |-> Lookup(state_dict, net.sd[i].k)]
        ELSE net.sd[i]]]

-----------------------------------------------------------------------------
(* Device *)

\* self.device, line 51
Device == IF Len(gpu_ids) > 0 THEN "cuda:" \o ToString(gpu_ids[1]) ELSE "cpu"

\* the networks that string entries of model_names name
NamedNets == {model_names[i].v : i \in {j \in 1..Len(model_names) : IsStr(model_names[j])}}

\* one call made by a method: which, on what, with which state dict, and
\* the gradient-recording mode at the time
Ev(ev, name, path, sd, grad) ==
    [ev |-> ev, name |-> name, path |-> path, sd |-> sd, grad |-> grad]

-----------------------------------------------------------------------------
(* Checkpoints *)

\* save_networks, lines 174-179: one torch.save per string entry, names
\* taken from index i on
RECURSIVE SaveFiles(_, _, _, _)
SaveFiles(fs, names, epoch, i) ==
    IF i > Len(names) THEN fs
    ELSE IF IsStr(names[i])
    THEN LET save_filename == PklName(epoch, names[i].v)
             save_path == PathJoin(save_dir, save_filename)
             net == nets[names[i].v]
             written == [p \in DOMAIN fs \cup {save_path} |->
                           IF p = save_path THEN net.sd ELSE fs[p]]
         IN  SaveFiles(written, names, epoch, i + 1)
    ELSE SaveFiles(fs, names, epoch, i + 1)

\* save_networks, lines 180-183: np.savetxt of (epoch, epoch_iter)
SaveIterFile(fs, train_info) ==
    IF train_info.given
    THEN LET iter_path == PathJoin(save_dir, "iter.txt")
         IN  [p \in DOMAIN fs \cup {iter_path} |->
                IF p = iter_path
                THEN <<[k |-> "epoch", v |-> train_info.epoch],
                       [k |-> "epoch_iter", v |-> train_info.epoch_iter]>>
                ELSE fs[p]]
    ELSE fs

\* load_networks, lines 218-220: on the CPU every key of the loaded dict is
\* replaced by the key without its first seven characters, in the order of
\* the keys the dict had when the loop began
RECURSIVE StripKeys(_, _, _)
StripKeys(state_dict, keys, i) ==
    IF i > Len(keys) THEN state_dict
    ELSE LET key == keys[i]
             val == Lookup(state_dict, key)
         IN  StripKeys(SetItem(Pop(state_dict, key), DropSeven(key), val), keys, i + 1)

\* load_networks, lines 208-212
LoadPath(epoch, name) ==
    IF LastThree(epoch) = "pkl" THEN epoch
    ELSE PathJoin(save_dir, PklName(epoch, name))

\* load_networks, lines 217-222: the dict handed to load_state_dict
LoadedDict(load_path) ==
    LET state_dict == files[load_path]
    IN  IF Device = "cpu" THEN StripKeys(state_dict, Keys(state_dict), 1)
        ELSE state_dict

\* a loader that raises in training mode too
MissingRaisesAlways == "ValueError"

\* load_networks, lines 225-229: no checkpoint file for a name
MissingRaises == IF isTrain = FALSE THEN "ValueError" ELSE "none"

\* load_networks, lines 206-229, from entry i of model_names on; st holds
\* the networks, the calls so far and the exception raised
RECURSIVE LoadFrom(_, _, _)
LoadFrom(st, epoch, i) ==
    IF i > Len(model_names) \/ st.raised # "none" THEN st
    ELSE IF IsStr(model_names[i])
    THEN LET name == model_names[i].v
             load_path == LoadPath(epoch, name)
         IN  IF load_path \in DOMAIN files
             THEN LET state_dict == LoadedDict(load_path)
                  IN  LoadFrom([st EXCEPT
                          !.nets = [st.nets EXCEPT ![name] = LoadStateDict(@, state_dict)],
                          !.trace = Append(@, Ev("load_state_dict", name, load_path,
                                                 state_dict, grad_enabled))],
                        epoch, i + 1)
             ELSE LoadFrom([st EXCEPT
                          !.trace = Append(@, Ev("no_weight_file", name, load_path,
                                                 EmptyDict, grad_enabled)),
                          !.raised = MissingRaises],
                        epoch, i + 1)
    ELSE LoadFrom(st, epoch, i + 1)

\* load_networks(epoch) run on the current state
load_networks(epoch) ==
    LoadFrom([nets |-> nets, trace |-> <<>>, raised |-> "none"], epoch, 1)

\* key.split('.')
RECURSIVE Split(_)
Split(s) ==
    IF \E i \in 1..Len(s) : SubSeq(s, i, i) = "."
    THEN LET i == CHOOSE j \in 1..Len(s) :
                    /\ SubSeq(s, j, j) = "."
                    /\ \A h \in 1..(j - 1) : SubSeq(s, h, h) # "."
         IN  <<SubSeq(s, 1, i - 1)>> \o Split(SubSeq(s, i + 1, Len(s)))
    ELSE <<s>>

\* '.'.join(keys)
RECURSIVE DotJoin(_)
DotJoin(keys) ==
    IF Len(keys) = 0 THEN ""
    ELSE IF Len(keys) = 1 THEN keys[1]
    ELSE keys[1] \o "." \o DotJoin(Tail(keys))

\* __patch_instance_norm_state_dict(state_dict, module, keys, i), lines
\* 185-197; module is the path of the module in the tree of arch, keys[i]
\* of the code is keys[i + 1] here.  The result is the patched dict and the
\* exception of a getattr that found no such submodule.
RECURSIVE patch_instance_norm_state_dict(_, _, _, _, _)
patch_instance_norm_state_dict(state_dict, arch, module, keys, i) ==
    LET key == keys[i + 1]
        cls == ModuleTree(arch)[module].cls
    IN  IF i + 1 = Len(keys)
        THEN LET first ==
                   IF /\ StartsWith(cls, "InstanceNorm")
                      /\ (key = "running_mean" \/ key = "running_var")
                      /\ key \in ModuleTree(arch)[module].none
                   THEN Pop(state_dict, DotJoin(keys))
                   ELSE state_dict
                 second ==
                   IF StartsWith(cls, "InstanceNorm") /\ key = "num_batches_tracked"
                   THEN Pop(first, DotJoin(keys))
                   ELSE first
             IN  [sd |-> second, raised |-> "none"]
        ELSE LET child == IF module = "" THEN key ELSE module \o "." \o key
             IN  IF child \in DOMAIN ModuleTree(arch)
                 THEN patch_instance_norm_state_dict(state_dict, arch, child, keys, i + 1)
                 ELSE [sd |-> state_dict, raised |-> "AttributeError"]

-----------------------------------------------------------------------------
(* Inputs *)

SaveEpochs == {"1"}
LoadEpochs == {"1", "2", "ckpt/exp/1_G.pkl"}

\* train_info of save_networks: None, or (epoch, epoch_iter)
TrainInfos == {[given |-> FALSE, epoch |-> 0, epoch_iter |-> 0],
               [given |-> TRUE, epoch |-> 1, epoch_iter |-> 0]}

ModelNameLists ==
    {<<>>,
     <<StrEntry("G")>>,
     <<StrEntry("G"), ObjEntry, StrEntry("D")>>,
     <<StrEntry("D"), StrEntry("G"), StrEntry("D")>>}

LossNameLists ==
    {<<>>,
     <<StrEntry("G")>>,
     <<StrEntry("D"), ObjEntry, StrEntry("G"), StrEntry("D")>>}

VisualNameLists ==
    {<<>>,
     <<StrEntry("fake")>>,
     <<StrEntry("fake"), ObjEntry, StrEntry("loss_G"), StrEntry("fake")>>}

OptimizerNames == <<"optimizer_G", "optimizer_D", "optimizer_E">>

\* losses are Python floats or scalar tensors, visuals are tensors
LossVals == [kind : {"float", "tensor"}, v : Vals]
VisualVals == [kind : {"tensor"}, v : Vals]

\* checkpoints that may lie in save_dir before the run: none, one written
\* by a network whose normalization layers tracked statistics, and one
\* written from a DataParallel-wrapped network (keys prefixed 'module.')
NoFiles == [p \in {} |-> EmptyDict]
InitialFiles(dir) ==
    {NoFiles,
     [p \in {PathJoin(dir, "1_G.pkl")} |->
        <<[k |-> "c.w", v |-> 1], [k |-> "n.running_mean", v |-> 1],
          [k |-> "n.num_batches_tracked", v |-> 1]>>],
     [p \in {PathJoin(dir, "1_G.pkl")} |-> <<[k |-> "module.c.w", v |-> 1]>>]}

NoSnap == [valid |-> FALSE, epoch |-> "", sd |-> [n \in NetNames |-> EmptyDict]]

\* the state after the subclass constructor has run BaseModel.__init__
\* (lines 42-62) and filled in its lists and networks
Init ==
    /\ isTrain \in BOOLEAN
    /\ gpu_ids \in {<<>>, <<0>>}
    /\ lr_policy \in {"plateau", "linear"}
    /\ save_dir = PathJoin("ckpt", "exp")
    /\ model_names \in ModelNameLists
    /\ loss_names \in LossNameLists
    /\ visual_names \in VisualNameLists
    /\ \E n \in 0..MaxOpt : optimizers = SubSeq(OptimizerNames, 1, n)
    /\ schedulers = [defined |-> FALSE, list |-> <<>>]
    /\ metric = 0
    /\ attrs = [a \in {"loss_G", "loss_D", "fake"} |->
                  IF a = "fake" THEN [kind |-> "tensor", v |-> 0]
                  ELSE [kind |-> "float", v |-> 0]]
    /\ \E a \in Archs, m \in BOOLEAN :
         nets = [n \in NetNames |-> IF n = "G" THEN NewNet(a, m) ELSE NewNet("linear", TRUE)]
    /\ files \in InitialFiles(save_dir)
    /\ grad_enabled \in BOOLEAN
    /\ lastOp = "__init__"
    /\ lastArg = NoArg
    /\ raised = "none"
    /\ trace = <<>>
    /\ ret = EmptyDict
    /\ snap = NoSnap
    /\ set_up = FALSE

-----------------------------------------------------------------------------
(* Operations *)

\* what a method that is not about checkpoints leaves alone
CkptUnchanged == UNCHANGED <<files, snap>>
OutsideSetup == UNCHANGED set_up
ConfigUnchanged ==
    UNCHANGED <<isTrain, gpu_ids, lr_policy, save_dir, model_names, loss_names,
                visual_names, optimizers>>

\* save_networks(epoch, train_info), lines 168-183
SaveNetworks ==
    \E epoch \in SaveEpochs, train_info \in TrainInfos :
        /\ files' = SaveIterFile(SaveFiles(files, model_names, epoch, 1), train_info)
        /\ snap' = [valid |-> TRUE, epoch |-> epoch,
                    sd |-> [n \in NetNames |->
                              IF n \in NamedNets THEN nets[n].sd ELSE EmptyDict]]
        /\ lastOp' = "save_networks"
        /\ lastArg' = [epoch |-> epoch, continue_train |-> FALSE]
        /\ raised' = "none"
        /\ trace' = <<>>
        /\ ret' = EmptyDict
        /\ ConfigUnchanged
        /\ OutsideSetup
        /\ UNCHANGED <<schedulers, metric, attrs, nets, grad_enabled>>

\* load_networks(epoch), lines 199-229
LoadNetworks ==
    \E epoch \in LoadEpochs :
        LET r == load_networks(epoch)
        IN  /\ nets' = r.nets
            /\ trace' = r.trace
            /\ raised' = r.raised
            /\ lastOp' = "load_networks"
            /\ lastArg' = [epoch |-> epoch, continue_train |-> FALSE]
            /\ ret' = EmptyDict
            /\ ConfigUnchanged
            /\ OutsideSetup
            /\ CkptUnchanged
            /\ UNCHANGED <<schedulers, metric, attrs, grad_enabled>>

\* a setup that loads only when training is continued
SetupLoadsOnContinue(continue_train) == continue_train

\* setup, line 104: whether the checkpoint is loaded
SetupLoads(continue_train) == (~isTrain) \/ continue_train

\* setup(opt), lines 96-106; opt.continue_train and opt.load_epoch are the
\* flags of the opt passed in
Setup ==
    \E continue_train \in BOOLEAN, load_epoch \in LoadEpochs :
        LET made == IF isTrain
                    THEN [defined |-> TRUE,
                          list |-> [i \in 1..Len(optimizers) |->
                                      [optimizer |-> optimizers[i], steps |-> 0,
                                       arg |-> [given |-> FALSE, v |-> 0]]]]
                    ELSE schedulers
            t1 == IF isTrain
                  THEN [i \in 1..Len(optimizers) |->
                          Ev("get_scheduler", optimizers[i], "", EmptyDict, grad_enabled)]
                  ELSE <<>>
            loads == SetupLoads(continue_train)
            r == IF loads THEN load_networks(load_epoch)
                 ELSE [nets |-> nets, trace |-> <<>>, raised |-> "none"]
            t2 == IF loads
                  THEN <<Ev("load_networks", load_epoch, "", EmptyDict, grad_enabled)>>
                       \o r.trace
                  ELSE <<>>
            t3 == IF r.raised = "none"
                  THEN <<Ev("print_networks", "", "", EmptyDict, grad_enabled)>>
                  ELSE <<>>
        IN  /\ schedulers' = made
            /\ nets' = r.nets
            /\ trace' = t1 \o t2 \o t3
            /\ raised' = r.raised
            /\ lastOp' = "setup"
            /\ lastArg' = [epoch |-> load_epoch, continue_train |-> continue_train]
            /\ ret' = EmptyDict
            /\ ConfigUnchanged
            /\ set_up' = (r.raised = "none")
            /\ CkptUnchanged
            /\ UNCHANGED <<metric, attrs, grad_enabled>>

\* a loop that ends at the first entry that is not a string
RECURSIVE SetModeUntilObj(_, _, _)
SetModeUntilObj(ns, mode, i) ==
    IF i > Len(model_names) THEN ns
    ELSE IF IsStr(model_names[i])
    THEN SetModeUntilObj([ns EXCEPT ![model_names[i].v].training = mode], mode, i + 1)
    ELSE ns

\* train() and eval(), lines 108-120: net.train(mode) on the network of
\* every string entry, from entry i on
RECURSIVE SetMode(_, _, _)
SetMode(ns, mode, i) ==
    IF i > Len(model_names) THEN ns
    ELSE IF IsStr(model_names[i])
    THEN SetMode([ns EXCEPT ![model_names[i].v].training = mode], mode, i + 1)
    ELSE SetMode(ns, mode, i + 1)

\* train(), lines 108-113
Train ==
    /\ nets' = SetMode(nets, TRUE, 1)
    /\ lastOp' = "train"
    /\ lastArg' = NoArg
    /\ raised' = "none"
    /\ trace' = <<>>
    /\ ret' = EmptyDict
    /\ ConfigUnchanged
    /\ OutsideSetup
    /\ CkptUnchanged
    /\ UNCHANGED <<schedulers, metric, attrs, grad_enabled>>

\* eval(), lines 115-120
Eval ==
    /\ nets' = SetMode(nets, FALSE, 1)
    /\ lastOp' = "eval"
    /\ lastArg' = NoArg
    /\ raised' = "none"
    /\ trace' = <<>>
    /\ ret' = EmptyDict
    /\ ConfigUnchanged
    /\ OutsideSetup
    /\ CkptUnchanged
    /\ UNCHANGED <<schedulers, metric, attrs, grad_enabled>>

\* torch.no_grad(), line 128: entering records the mode and turns gradient
\* recording off, leaving (normally or by an exception) puts the mode back
NoGradEnter(mode) == [prev |-> mode, now |-> FALSE]
NoGradExitOff(ctx) == ctx.now
NoGradExit(ctx) == ctx.prev

\* test(), lines 122-130; forward is the subclass's: it may raise, and it
\* leaves its result in a visual attribute
Test ==
    \E fails \in BOOLEAN, out \in VisualVals :
        LET ctx == NoGradEnter(grad_enabled)
            t1 == <<Ev("forward", "", "", EmptyDict, ctx.now)>>
            t2 == IF fails THEN <<>>
                  ELSE <<Ev("compute_visuals", "", "", EmptyDict, ctx.now)>>
        IN  /\ trace' = t1 \o t2
            /\ raised' = IF fails THEN "RuntimeError" ELSE "none"
            /\ attrs' = IF fails THEN attrs ELSE [attrs EXCEPT !["fake"] = out]
            /\ grad_enabled' = NoGradExit(ctx)
            /\ lastOp' = "test"
            /\ lastArg' = NoArg
            /\ ret' = EmptyDict
            /\ ConfigUnchanged
            /\ OutsideSetup
            /\ CkptUnchanged
            /\ UNCHANGED <<schedulers, metric, nets>>

\* a step that passes the metric whatever the policy
StepArgMetric == [given |-> TRUE, v |-> metric]

\* scheduler.step(...), lines 143-146: with the metric under the 'plateau'
\* policy, with no argument otherwise
StepArg ==
    IF lr_policy = "plateau" THEN [given |-> TRUE, v |-> metric]
    ELSE [given |-> FALSE, v |-> 0]

\* update_learning_rate, lines 142-146, from scheduler i on; st holds the
\* schedulers and the calls made so far
RECURSIVE StepFrom(_, _)
StepFrom(st, i) ==
    IF i > Len(st.list) THEN st
    ELSE StepFrom([list |-> [st.list EXCEPT ![i].steps = @ + 1, ![i].arg = StepArg],
                   trace |-> Append(st.trace,
                                    Ev("step", st.list[i].optimizer, "", EmptyDict,
                                       grad_enabled))],
                  i + 1)

\* update_learning_rate(), lines 140-149: self.schedulers exists only once
\* setup has created it; self.optimizers[0] is read after the loop
UpdateLearningRate ==
    /\ \A i \in 1..Len(schedulers.list) : schedulers.list[i].steps < MaxSteps
    /\ IF ~schedulers.defined
       THEN /\ raised' = "AttributeError"
            /\ trace' = <<>>
            /\ UNCHANGED schedulers
       ELSE /\ schedulers' = [schedulers EXCEPT
                               !.list = StepFrom([list |-> @, trace |-> <<>>], 1).list]
            /\ trace' = StepFrom([list |-> schedulers.list, trace |-> <<>>], 1).trace
            /\ raised' = IF Len(optimizers) = 0 THEN "IndexError" ELSE "none"
    /\ lastOp' = "update_learning_rate"
    /\ lastArg' = NoArg
    /\ ret' = EmptyDict
    /\ ConfigUnchanged
    /\ OutsideSetup
    /\ CkptUnchanged
    /\ UNCHANGED <<metric, attrs, nets, grad_enabled>>

\* no conversion
FloatSame(x) == x

\* float(x), line 164: a Python float of the same value
Float(x) == [kind |-> "float", v |-> x.v]

\* get_current_visuals(), lines 153-157, from entry i of visual_names on
RECURSIVE CollectVisuals(_, _)
CollectVisuals(visual_ret, i) ==
    IF i > Len(visual_names) THEN visual_ret
    ELSE IF IsStr(visual_names[i])
    THEN CollectVisuals(SetItem(visual_ret, visual_names[i].v,
                                attrs[visual_names[i].v]), i + 1)
    ELSE CollectVisuals(visual_ret, i + 1)

\* get_current_losses(), lines 161-166, from entry i of loss_names on
RECURSIVE CollectLosses(_, _)
CollectLosses(errors_ret, i) ==
    IF i > Len(loss_names) THEN errors_ret
    ELSE IF IsStr(loss_names[i])
    THEN CollectLosses(SetItem(errors_ret, loss_names[i].v,
                               Float(attrs["loss_" \o loss_names[i].v])), i + 1)
    ELSE CollectLosses(errors_ret, i + 1)

\* get_current_visuals(), lines 151-157
GetCurrentVisuals ==
    /\ ret' = CollectVisuals(EmptyDict, 1)
    /\ lastOp' = "get_current_visuals"
    /\ lastArg' = NoArg
    /\ raised' = "none"
    /\ trace' = <<>>
    /\ ConfigUnchanged
    /\ OutsideSetup
    /\ CkptUnchanged
    /\ UNCHANGED <<schedulers, metric, attrs, nets, grad_enabled>>

\* get_current_losses(), lines 159-166
GetCurrentLosses ==
    /\ ret' = CollectLosses(EmptyDict, 1)
    /\ lastOp' = "get_current_losses"
    /\ lastArg' = NoArg
    /\ raised' = "none"
    /\ trace' = <<>>
    /\ ConfigUnchanged
    /\ OutsideSetup
    /\ CkptUnchanged
    /\ UNCHANGED <<schedulers, metric, attrs, nets, grad_enabled>>

\* optimize_parameters(), lines 91-94, is the subclass's: "calculate losses,
\* gradients, and update network weights".  Its two effects on the state
\* BaseModel reads are taken one at a time: a new loss value ...
ComputeLosses ==
    \E a \in {"loss_G", "loss_D"}, x \in LossVals :
        /\ attrs' = [attrs EXCEPT ![a] = x]
        /\ lastOp' = "optimize_parameters"
        /\ lastArg' = NoArg
        /\ raised' = "none"
        /\ trace' = <<>>
        /\ ret' = EmptyDict
        /\ ConfigUnchanged
        /\ OutsideSetup
        /\ CkptUnchanged
        /\ UNCHANGED <<schedulers, metric, nets, grad_enabled>>

\* ... and a new value in one entry of one of the networks in training
UpdateWeights ==
    \E n \in NamedNets, v \in Vals :
        \E i \in 1..Len(nets[n].sd) :
            /\ nets[n].sd[i].v # v
            /\ nets' = [nets EXCEPT ![n].sd[i].v = v]
            /\ lastOp' = "optimize_parameters"
            /\ lastArg' = NoArg
            /\ raised' = "none"
            /\ trace' = <<>>
            /\ ret' = EmptyDict
            /\ ConfigUnchanged
            /\ OutsideSetup
            /\ CkptUnchanged
            /\ UNCHANGED <<schedulers, metric, attrs, grad_enabled>>

\* self.metric, line 62, "used for learning rate policy 'plateau'": the
\* subclass stores the quantity the plateau scheduler watches
UpdateMetric ==
    \E m \in Vals :
        /\ metric # m
        /\ metric' = m
        /\ lastOp' = "optimize_parameters"
        /\ lastArg' = NoArg
        /\ raised' = "none"
        /\ trace' = <<>>
        /\ ret' = EmptyDict
        /\ ConfigUnchanged
        /\ OutsideSetup
        /\ CkptUnchanged
        /\ UNCHANGED <<schedulers, attrs, nets, grad_enabled>>

-----------------------------------------------------------------------------
(* Specifications *)

Next ==
    \/ SaveNetworks
    \/ LoadNetworks
    \/ Setup
    \/ Train
    \/ Eval
    \/ Test
    \/ UpdateLearningRate
    \/ GetCurrentVisuals
    \/ GetCurrentLosses
    \/ ComputeLosses
    \/ UpdateWeights
    \/ UpdateMetric

\* every operation from every construction; the properties are checked
\* under the parts of it below, each with the operations its state depends on
Spec == Init /\ [][Next]_vars

\* checkpoints: saving, loading and training steps in between
InitCkpt ==
    /\ Init
    /\ lr_policy = "linear"
    /\ loss_names = <<>>
    /\ visual_names = <<>>
    /\ optimizers = <<>>
    /\ grad_enabled
    /\ nets["G"].training
NextCkpt == SaveNetworks \/ LoadNetworks \/ UpdateWeights
SpecCkpt == InitCkpt /\ [][NextCkpt]_vars

\* set-up and learning-rate schedule
InitSched ==
    /\ Init
    /\ gpu_ids = <<0>>
    /\ nets["G"] = NewNet("plain", TRUE)
    /\ loss_names = <<>>
    /\ visual_names = <<>>
    /\ grad_enabled
NextSched == Setup \/ UpdateLearningRate \/ UpdateMetric
SpecSched == InitSched /\ [][NextSched]_vars

\* train/eval mode and the test-time forward pass
InitMode ==
    /\ Init
    /\ isTrain
    /\ gpu_ids = <<0>>
    /\ lr_policy = "linear"
    /\ loss_names = <<>>
    /\ visual_names = <<>>
    /\ optimizers = <<>>
    /\ files = NoFiles
NextMode == Train \/ Eval \/ Test \/ UpdateWeights
SpecMode == InitMode /\ [][NextMode]_vars

\* loss and visual bookkeeping
InitBook ==
    /\ Init
    /\ isTrain
    /\ gpu_ids = <<0>>
    /\ lr_policy = "linear"
    /\ model_names = <<StrEntry("G")>>
    /\ nets["G"] = NewNet("plain", TRUE)
    /\ optimizers = <<>>
    /\ files = NoFiles
    /\ grad_enabled
NextBook == GetCurrentVisuals \/ GetCurrentLosses \/ ComputeLosses \/ Test
SpecBook == InitBook /\ [][NextBook]_vars

-----------------------------------------------------------------------------
(* Properties: checkpoints (SpecCkpt) *)

\* the string entries of a name list, in order
StrNames(list) ==
    LET strs == SelectSeq(list, IsStr)
    IN  [i \in 1..Len(strs) |-> strs[i].v]

\* load_networks(e) has just returned and the last save_networks was for e
LoadedAfterSave ==
    /\ lastOp = "load_networks"
    /\ raised = "none"
    /\ snap.valid
    /\ snap.epoch = lastArg.epoch
    /\ LastThree(lastArg.epoch) # "pkl"

\* C1: after save_networks(e) followed by load_networks(e), on the CPU as on
\* the GPU, every network named by a string entry of model_names holds the
\* state-dict entries it had when save_networks(e) was called.
C1_RoundTrip ==
    LoadedAfterSave => \A n \in NamedNets : nets[n].sd = snap.sd[n]

\* the same on a GPU only, where the keys of the loaded dict are not renamed
C1_RoundTripOnGpu ==
    (LoadedAfterSave /\ Device # "cpu") => \A n \in NamedNets : nets[n].sd = snap.sd[n]

C1_RoundTripOnGpuSeen ==
    /\ LoadedAfterSave
    /\ Device # "cpu"
    /\ \E j \in 1..Len(trace) :
         /\ trace[j].ev = "load_state_dict"
         /\ trace[j].sd # EmptyDict

\* C2: when the checkpoint file of a string-named network does not exist,
\* load_networks raises ValueError if isTrain is False; if isTrain is True
\* it raises nothing, leaves that network as it was and goes on to every
\* remaining name of model_names.
C2_MissingCheckpoint ==
    [][lastOp' = "load_networks" =>
        LET missing == {n \in NamedNets : LoadPath(lastArg'.epoch, n) \notin DOMAIN files}
        IN  /\ (~isTrain /\ missing # {}) => raised' = "ValueError"
            /\ isTrain =>
                 /\ raised' = "none"
                 /\ \A n \in missing : nets'[n] = nets[n]
                 /\ [j \in 1..Len(trace') |-> trace'[j].name] = StrNames(model_names)
                 /\ \A j \in 1..Len(trace') :
                      trace'[j].ev = (IF trace'[j].name \in missing
                                      THEN "no_weight_file" ELSE "load_state_dict")
    ]_vars

\* training mode: a name without a file was passed over and a later name
\* was loaded from its file
C2_MissingSkipped ==
    /\ lastOp = "load_networks"
    /\ isTrain
    /\ raised = "none"
    /\ \E i, j \in 1..Len(trace) :
         /\ i < j
         /\ trace[i].ev = "no_weight_file"
         /\ trace[j].ev = "load_state_dict"
         /\ nets[trace[j].name].sd # NewNet(nets[trace[j].name].arch, TRUE).sd

\* the loop of lines 242-243 over the keys of a dict: each key is split at
\* the dots and patched; a key whose path names no submodule is left alone
RECURSIVE PatchKeys(_, _, _, _)
PatchKeys(state_dict, arch, keys, i) ==
    IF i > Len(keys) THEN state_dict
    ELSE LET r == patch_instance_norm_state_dict(state_dict, arch, "", Split(keys[i]), 0)
         IN  PatchKeys(IF r.raised = "none" THEN r.sd ELSE state_dict, arch, keys, i + 1)

\* C8: when load_networks loads a state dict, the keys that end at an
\* InstanceNorm module are patched before the weights are applied
\* (running_mean and running_var removed when the module's attribute is
\* None, num_batches_tracked always removed), every other key unchanged.
C8_PatchedOnLoad ==
    \A j \in 1..Len(trace) :
        trace[j].ev = "load_state_dict" =>
            trace[j].sd = PatchKeys(LoadedDict(trace[j].path),
                                    nets[trace[j].name].arch,
                                    Keys(LoadedDict(trace[j].path)), 1)

-----------------------------------------------------------------------------
(* Properties: set-up and learning-rate schedule (SpecSched) *)

Count(ev) == Cardinality({j \in 1..Len(trace) : trace[j].ev = ev})

\* the calls of setup: one get_scheduler per optimizer iff isTrain, then
\* load_networks(opt.load_epoch) iff not isTrain or opt.continue_train,
\* then print_networks if printed
SetupSteps(printed) ==
    LET k == IF isTrain THEN Len(optimizers) ELSE 0
        loads == (~isTrain) \/ lastArg.continue_train
    IN  /\ Count("get_scheduler") = k
        /\ Len(trace) >= k
        /\ \A i \in 1..k : trace[i].ev = "get_scheduler" /\ trace[i].name = optimizers[i]
        /\ isTrain =>
             /\ schedulers.defined
             /\ [i \in 1..Len(schedulers.list) |-> schedulers.list[i].optimizer] = optimizers
        /\ ~isTrain => ~schedulers.defined
        /\ Count("load_networks") = (IF loads THEN 1 ELSE 0)
        /\ loads =>
             /\ Len(trace) > k
             /\ trace[k + 1].ev = "load_networks"
             /\ trace[k + 1].name = lastArg.epoch
        /\ ~loads => Count("load_state_dict") + Count("no_weight_file") = 0
        /\ Count("print_networks") = (IF printed THEN 1 ELSE 0)
        /\ printed => trace[Len(trace)].ev = "print_networks"

\* C3 as claimed: setup creates one scheduler per optimizer iff isTrain,
\* then calls load_networks(opt.load_epoch) iff isTrain is False or
\* opt.continue_train, then always calls print_networks.
C3_SetupAlwaysPrints ==
    lastOp = "setup" => SetupSteps(TRUE)

\* C3 as amended: the same steps in the same order, but print_networks is
\* called only if load_networks did not raise; when load_networks raises
\* (ValueError, inference without a checkpoint) setup ends there.
C3_SetupSteps ==
    lastOp = "setup" =>
        /\ SetupSteps(raised = "none")
        /\ raised # "none" =>
             /\ raised = "ValueError"
             /\ ~isTrain
             /\ trace[Len(trace)].ev = "no_weight_file"

\* a continued training run: two schedulers, a checkpoint read, the print
C3_SetupContinued ==
    /\ lastOp = "setup"
    /\ isTrain
    /\ lastArg.continue_train
    /\ Len(schedulers.list) = 2
    /\ Count("load_state_dict") > 0
    /\ Count("print_networks") = 1

\* every scheduler was stepped once, in order, with the metric under the
\* 'plateau' policy and with no argument otherwise
StepsMade ==
    /\ schedulers.defined
    /\ Len(trace) = Len(schedulers.list)
    /\ \A i \in 1..Len(trace) :
         /\ trace[i].ev = "step"
         /\ trace[i].name = schedulers.list[i].optimizer
         /\ schedulers.list[i].steps >= 1
         /\ schedulers.list[i].arg.given = (lr_policy = "plateau")
         /\ schedulers.list[i].arg.given => schedulers.list[i].arg.v = metric

\* C5 as claimed: update_learning_rate steps every scheduler once (with
\* self.metric under 'plateau', with no argument otherwise) and never
\* raises, whatever the setup before it.
C5_UpdateNeverRaises ==
    (lastOp = "update_learning_rate" /\ set_up) => (StepsMade /\ raised = "none")

\* C5 as amended: after a setup with isTrain True every call steps every
\* scheduler exactly once, with self.metric under 'plateau' and with no
\* argument otherwise, and returns iff self.optimizers is not empty
\* (IndexError otherwise, once the schedulers are stepped); after a setup
\* with isTrain False there is no self.schedulers and the call raises
\* AttributeError, stepping nothing.
C5_UpdateLearningRate ==
    /\ []((lastOp = "update_learning_rate" /\ set_up) =>
            IF isTrain
            THEN /\ StepsMade
                 /\ raised = (IF Len(optimizers) = 0 THEN "IndexError" ELSE "none")
            ELSE /\ ~schedulers.defined
                 /\ raised = "AttributeError"
                 /\ trace = <<>>)
    /\ [][(lastOp' = "update_learning_rate" /\ set_up /\ isTrain) =>
            /\ Len(schedulers'.list) = Len(schedulers.list)
            /\ \A i \in 1..Len(schedulers.list) :
                 schedulers'.list[i].steps = schedulers.list[i].steps + 1
         ]_vars

\* two schedulers stepped twice under 'plateau' with a metric of 1
C5_PlateauStepped ==
    /\ lastOp = "update_learning_rate"
    /\ set_up
    /\ raised = "none"
    /\ lr_policy = "plateau"
    /\ Len(schedulers.list) = 2
    /\ \A i \in 1..2 : schedulers.list[i].steps = 2 /\ schedulers.list[i].arg.v = 1

-----------------------------------------------------------------------------
(* Properties: train/eval mode and test (SpecMode) *)

\* C4: after train() every network named by a string entry of model_names
\* is in training mode, after eval() every one is in evaluation mode (so
\* all are in the same mode), and entries that are not strings are passed
\* over without an exception.
C4_ModeToggle ==
    /\ lastOp = "train" => (raised = "none" /\ \A n \in NamedNets : nets[n].training)
    /\ lastOp = "eval" => (raised = "none" /\ \A n \in NamedNets : ~nets[n].training)

\* eval() on a list with an entry that is not a string between two names
C4_EvalSeen ==
    /\ lastOp = "eval"
    /\ Cardinality(NamedNets) = 2
    /\ \E i \in 1..Len(model_names) : ~IsStr(model_names[i])
    /\ \A n \in NamedNets : ~nets[n].training

\* C6: test() calls forward() and then compute_visuals(), once each, both
\* with gradient recording off; compute_visuals() is not called if
\* forward() raises; either way the gradient-recording mode afterwards is
\* what it was before the call.
C6_TestNoGrad ==
    /\ [](lastOp = "test" =>
            /\ trace[1].ev = "forward"
            /\ \A j \in 1..Len(trace) : ~trace[j].grad
            /\ raised = "none" =>
                 (Len(trace) = 2 /\ trace[2].ev = "compute_visuals")
            /\ raised # "none" => Len(trace) = 1)
    /\ [][lastOp' = "test" => grad_enabled' = grad_enabled]_vars

\* forward() raised inside test() and gradient recording is on again
C6_ForwardRaisedSeen ==
    /\ lastOp = "test"
    /\ raised # "none"
    /\ grad_enabled

-----------------------------------------------------------------------------
(* Properties: loss and visual bookkeeping (SpecBook) *)

\* the place of the first entry of list that is the string n
FirstAt(list, n) ==
    CHOOSE i \in 1..Len(list) :
        /\ list[i] = StrEntry(n)
        /\ \A h \in 1..(i - 1) : list[h] # StrEntry(n)

\* d has exactly one entry per distinct string entry of list, in the order
\* of list
OneEntryPerName(d, list) ==
    /\ KeySet(d) = {list[i].v : i \in {j \in 1..Len(list) : IsStr(list[j])}}
    /\ Len(d) = Cardinality(KeySet(d))
    /\ \A i, j \in 1..Len(d) : i < j => FirstAt(list, d[i].k) < FirstAt(list, d[j].k)

\* C7: get_current_losses() returns one entry per distinct string entry n
\* of loss_names, in loss_names order, holding attribute 'loss_' + n as a
\* float; get_current_visuals() returns one entry per distinct string entry
\* n of visual_names, in visual_names order, holding attribute n; entries
\* that are not strings give no entry and neither call changes an attribute.
C7_Bookkeeping ==
    /\ [](/\ lastOp = "get_current_losses" =>
               /\ OneEntryPerName(ret, loss_names)
               /\ \A i \in 1..Len(ret) :
                    ret[i].v = [kind |-> "float", v |-> attrs["loss_" \o ret[i].k].v]
          /\ lastOp = "get_current_visuals" =>
               /\ OneEntryPerName(ret, visual_names)
               /\ \A i \in 1..Len(ret) : ret[i].v = attrs[ret[i].k])
    /\ [][lastOp' \in {"get_current_losses", "get_current_visuals"} => attrs' = attrs]_vars

\* losses read from a list with a repeated name and an entry that is not a
\* string, one of them a tensor of value 1
C7_LossesSeen ==
    /\ lastOp = "get_current_losses"
    /\ Len(loss_names) = 4
    /\ Len(ret) = 2
    /\ \E i \in 1..Len(ret) :
         /\ attrs["loss_" \o ret[i].k].kind = "tensor"
         /\ ret[i].v = [kind |-> "float", v |-> 1]

====
